---- MODULE Spec2Model ----
(***************************************************************************)
(* Model of slidicom's tile-grid partitioning and stitching engine         *)
(* (slidicom/preprocessing.py): SVSProcessor._aspect_ratio,                *)
(* _split_per_image, _image_split_cordinates, _process_image and the       *)
(* thread-pool fan-out/fan-in of pixel_array.                              *)
(***************************************************************************)
EXTENDS Integers, Sequences, FiniteSets, TLC

(* ---------------------------------------------------------------------- *)
(* Bounds of the model                                                     *)
(* ---------------------------------------------------------------------- *)
\* largest requested image count / tile grid of the region-indexing runs
MaxImages == 6
MaxGridW == 10
MaxGridH == 7
\* largest requested image count / tile grid of the full pixel_array runs
RunMaxImages == 4
RunMaxW == 3
RunMaxH == 2
\* largest number of tiles whose get_tile raises in one run
MaxBad == 1
\* largest split factor handed directly to the region loop
MaxSplit == 3
\* number of different values a slide property takes
MaxPropertyValues == 2

(* ---------------------------------------------------------------------- *)
(* Program constants                                                       *)
(* ---------------------------------------------------------------------- *)
\* DeepZoomGenerator(tile_size=256) and the literal 256 of ImageCordinates
TileEdge == 256

VARIABLES
    nimages,            \* self._images
    level_dimensions,   \* self._tiles.level_dimensions[level_to_split]
    save,               \* the save flag of pixel_array
    format,             \* the format argument of pixel_array
    badTiles,           \* tile indices for which get_tile raises
    pc,                 \* position of the thread that called pixel_array
    exc,                \* exception that left pixel_array, "none" if none
    split,              \* (image_splits_on_X, image_splits_on_Y)
    regions,            \* the list returned by _image_split_cordinates
    nsubmitted,         \* number of executor.submit calls made so far
    task,               \* state of the future of each region
    tpos,               \* number of tiles a task has fetched and pasted
    canvas,             \* full_image of each task
    writes,             \* which thread has written which shared or private object
    gets,               \* get_tile calls made by each task, in order
    result,             \* value or exception held by each future
    images,             \* the dict 'images' of pixel_array
    collected,          \* futures already yielded by as_completed
    stdout,             \* lines printed by the except branch
    files,              \* raster files written by full_image.save
    ret,                \* value returned to the caller of pixel_array
    properties,         \* self._slide.properties
    slide_metadata,     \* self._slide_metadata
    gen_image,          \* PyramidTIFFGenerator._image
    gen_metadata,       \* PyramidTIFFGenerator._metadata
    ppc,                \* position of the caller in the generator's methods
    emitted,            \* keys the loop of generate_pyramid has been through
    calls,              \* the pyramid_file calls made, in order
    tiffs,              \* files opened by TiffWriter
    gexc,               \* exception that left a generator method
    gret                \* value returned by generate_pyramid

vars == <<nimages, level_dimensions, save, format, badTiles, pc, exc, split, regions,
          nsubmitted, task, tpos, canvas, writes, gets, result, images,
          collected, stdout, files, ret, properties, slide_metadata,
          gen_image, gen_metadata, ppc, emitted, calls, tiffs, gexc, gret>>

\* the state of a PyramidTIFFGenerator and of its files
generator == <<gen_image, gen_metadata, ppc, emitted, calls, tiffs, gexc, gret>>

\* the slide's properties and the metadata mapping built from them
metadata == <<properties, slide_metadata>>

inputs == <<nimages, level_dimensions, save, format, badTiles>>

(* ---------------------------------------------------------------------- *)
(* Values                                                                  *)
(* ---------------------------------------------------------------------- *)
NoSplit == <<0, 0>>
EmptyDict == <<>>

\* ceil(n / d) for positive d
CeilDiv(n, d) == (n + d - 1) \div d

\* Python's round(n / d) for n >= 0, d > 0: ties go to the even neighbour
PyRound(n, d) ==
    LET q == n \div d
        r == n % d
    IN  IF 2 * r < d THEN q
        ELSE IF 2 * r > d THEN q + 1
        ELSE IF q % 2 = 0 THEN q ELSE q + 1

\* self._tiles.level_tiles[level_to_split]: tiles across and down
level_tiles ==
    <<CeilDiv(level_dimensions[1], TileEdge),
      CeilDiv(level_dimensions[2], TileEdge)>>

\* number of DeepZoom levels of a w x h image: sizes are halved (rounding up)
\* until 1 x 1 is reached
RECURSIVE dz_level_count(_, _)
dz_level_count(w, h) ==
    IF w <= 1 /\ h <= 1 THEN 1
    ELSE 1 + dz_level_count(CeilDiv(w, 2), CeilDiv(h, 2))

\* self._level_count = self._tiles.level_count
level_count == dz_level_count(level_dimensions[1], level_dimensions[2])

\* self._level_to_split = self._level_count - 1
level_to_split == level_count - 1

\* SVSProcessor._aspect_ratio
aspect_ratio(dim) ==
    IF dim[1] < dim[2]
    THEN <<1, PyRound(dim[2], dim[1])>>
    ELSE <<PyRound(dim[1], dim[2]), 1>>

\* _split_per_image with 'images_on_Y = self._images // 2'
split_per_image_HalfY(n, ratio) ==
    IF n % 2 = 0
    THEN IF ratio[1] = 2 /\ ratio[2] = 1
         THEN [kind |-> "ok", value |-> <<n \div 2, n \div 2>>]
         ELSE [kind |-> "UnboundLocalError", value |-> <<0, 0>>]
    ELSE IF n = 1
         THEN [kind |-> "ok", value |-> <<1, 1>>]
         ELSE [kind |-> "UnboundLocalError", value |-> <<0, 0>>]

\* _split_per_image with 'images_on_X, images_on_Y = 1, 1' as an else branch
split_per_image_Fallback(n, ratio) ==
    IF n % 2 = 0 /\ ratio[1] = 2 /\ ratio[2] = 1
    THEN [kind |-> "ok", value |-> <<n \div 2, n \div (n \div 2)>>]
    ELSE [kind |-> "ok", value |-> <<1, 1>>]

\* SVSProcessor._split_per_image: the pair it returns, or the exception that
\* the read of the never-assigned locals images_on_X / images_on_Y raises
split_per_image(n, ratio) ==
    IF n % 2 = 0
    THEN IF ratio[1] = 2 /\ ratio[2] = 1
         THEN [kind |-> "ok", value |-> <<n \div 2, n \div (n \div 2)>>]
         ELSE [kind |-> "UnboundLocalError", value |-> NoSplit]
    ELSE IF n = 1
         THEN [kind |-> "ok", value |-> <<1, 1>>]
         ELSE [kind |-> "UnboundLocalError", value |-> NoSplit]

\* the (count, aspect) pairs the split rule supports
Supported(n, ratio) == n = 1 \/ (n % 2 = 0 /\ ratio = <<2, 1>>)

(* ---------------------------------------------------------------------- *)
(* _image_split_cordinates: one ImageCord per (y, x), y outer, x inner     *)
(* ---------------------------------------------------------------------- *)
ImageCord(img, a1, b1, a2, b2, a3, b3, a4, b4) ==
    [image |-> img, x1 |-> a1, y1 |-> b1, x2 |-> a2, y2 |-> b2,
     x3 |-> a3, y3 |-> b3, x4 |-> a4, y4 |-> b4]

\* the loop body with the vertical remainder left out of the bottom rows
image_cord_NoRemY(x, y, sx, sy, tx, ty, rx, ry) ==
    IF y < sy - 1
    THEN ImageCord(<<x + 1, y + 1>>,
                   x * tx, y, x * tx + tx + (IF x = sx - 1 THEN rx ELSE 0), y,
                   x * tx, ty, x * tx + tx + (IF x = sx - 1 THEN rx ELSE 0), ty)
    ELSE ImageCord(<<x + 1, y + 1>>,
                   x * tx, y * ty, x * tx + tx + rx, y * ty,
                   x * tx, y * ty + ty, x * tx + tx + rx, y * ty + ty)

\* the ImageCord built by the loop body for 0-based (x, y)
image_cord(x, y, sx, sy, tx, ty, rx, ry) ==
    IF x < sx - 1 /\ y < sy - 1
    THEN \* TOP LEFT
         ImageCord(<<x + 1, y + 1>>,
                   x * tx, y, x * tx + tx, y,
                   x * tx, ty, x * tx + tx, ty)
    ELSE IF x = sx - 1 /\ y < sy - 1
    THEN \* TOP RIGHT
         ImageCord(<<x + 1, y + 1>>,
                   x * tx, y, x * tx + tx + rx, y,
                   x * tx, ty, x * tx + tx + rx, ty)
    ELSE IF x = sx - 1 /\ y = sy - 1
    THEN \* BOTTOM RIGHT
         ImageCord(<<x + 1, y + 1>>,
                   x * tx, y * ty, x * tx + tx + rx, y * ty,
                   x * tx, y * ty + ty + ry, x * tx + tx + rx, y * ty + ty + ry)
    ELSE \* BOTTOM LEFT: x < sx - 1 /\ y = sy - 1
         ImageCord(<<x + 1, y + 1>>,
                   x * tx, y * ty, x * tx + tx + rx, y * ty,
                   x * tx, y * ty + ty + ry, x * tx + tx + rx, y * ty + ty + ry)

image_split_cordinates(sf, lt) ==
    LET sx == sf[1]
        sy == sf[2]
        tx == lt[1] \div sx
        ty == lt[2] \div sy
        rx == lt[1] % sx
        ry == lt[2] % sy
    IN  [k \in 1..(sx * sy) |->
            image_cord((k - 1) % sx, (k - 1) \div sx, sx, sy, tx, ty, rx, ry)]

(* ---------------------------------------------------------------------- *)
(* ImageCordinates                                                         *)
(* ---------------------------------------------------------------------- *)
\* os.path.basename(parent_filename), the same for every region of a run
parent_filename == "SVS158.svs"

\* str(n) for n >= 0, as the sequence of its decimal digits
RECURSIVE Str(_)
Str(n) ==
    LET d == <<"0", "1", "2", "3", "4", "5", "6", "7", "8", "9">>[(n % 10) + 1]
    IN  IF n < 10 THEN <<d>> ELSE Append(Str(n \div 10), d)

\* "{0}_{1}_{2}".format(...) with the row left out
image_filename_NoRow(c) ==
    <<parent_filename, "_">> \o Str(c.image[1])

\* "{0}_{1}_{2}".format(parent, image[0], image[1]), as a sequence of pieces
image_filename(c) ==
    <<parent_filename, "_">> \o Str(c.image[1]) \o <<"_">> \o Str(c.image[2])

\* image_height measured between the two top corners (y2 instead of y3)
image_height_Y2(c) == (c.y2 - c.y1) * TileEdge

image_width(c) == (c.x2 - c.x1) * TileEdge
image_height(c) == (c.y3 - c.y1) * TileEdge

\* _tile_image_index with range(y1, y3 + 1): the end row taken as inclusive
tile_image_index_Inclusive(c) ==
    LET w == c.x2 - c.x1
        h == c.y3 - c.y1 + 1
    IN  IF w <= 0 \/ h <= 0 THEN <<>>
        ELSE [k \in 1..(w * h) |->
                <<c.x1 + ((k - 1) % w), c.y1 + ((k - 1) \div w)>>]

\* _tile_image_index: [(x, y) for y in range(y1, y3) for x in range(x1, x2)]
tile_image_index(c) ==
    LET w == c.x2 - c.x1
        h == c.y3 - c.y1
    IN  IF w <= 0 \/ h <= 0 THEN <<>>
        ELSE [k \in 1..(w * h) |->
                <<c.x1 + ((k - 1) % w), c.y1 + ((k - 1) \div w)>>]

\* os.path.dirname(self._filename)
slide_directory == "C:/Users/edger/OneDrive/Desktop"

\* os.path.join(a, b) for a relative b: b alone when a is empty
path_join(a, b) == IF a = "" THEN b ELSE <<a, "/">> \o b

\* os.path.join(os.path.dirname(self._filename),
\*              "{0}.{1}".format(image.image_filename, format))
save_path(c, fmt) == path_join(slide_directory, image_filename(c) \o <<".", fmt>>)

\* format='jpeg', the default of pixel_array
DefaultFormat == "jpeg"

\* the raster formats a caller chooses from
Formats == {DefaultFormat, "png"}

\* the tile-index box of a region as a set of grid cells
Box(c) == (c.x1..(c.x2 - 1)) \X (c.y1..(c.y3 - 1))

(* ---------------------------------------------------------------------- *)
(* Slide metadata                                                          *)
(* ---------------------------------------------------------------------- *)
\* the keys of the SLIDE_METADATA table
SLIDE_METADATA ==
    {"aperio.AppMag", "aperio.Date", "aperio.DisplayColor",
     "aperio.Exposure Scale", "aperio.Exposure Time", "aperio.Filename",
     "aperio.Focus Offset", "aperio.ICC Profile", "aperio.ImageID",
     "aperio.Left", "aperio.LineAreaXOffset", "aperio.LineAreaYOffset",
     "aperio.LineCameraSkew", "aperio.MPP", "aperio.OriginalHeight",
     "aperio.OriginalWidth", "aperio.ScanScope ID", "aperio.StripeWidth",
     "aperio.Time", "aperio.Time Zone", "aperio.Top", "aperio.User",
     "openslide.associated.label.height", "openslide.associated.label.width",
     "openslide.associated.macro.height", "openslide.associated.macro.width",
     "openslide.associated.thumbnail.height",
     "openslide.associated.thumbnail.width", "openslide.comment",
     "openslide.icc-size", "openslide.level-count",
     "openslide.level[0].downsample", "openslide.level[0].height",
     "openslide.level[0].tile-height", "openslide.level[0].tile-width",
     "openslide.level[0].width", "openslide.level[1].downsample",
     "openslide.level[1].height", "openslide.level[1].tile-height",
     "openslide.level[1].tile-width", "openslide.level[1].width",
     "openslide.level[2].downsample", "openslide.level[2].height",
     "openslide.level[2].tile-height", "openslide.level[2].tile-width",
     "openslide.level[2].width", "openslide.level[3].downsample",
     "openslide.level[3].height", "openslide.level[3].tile-height",
     "openslide.level[3].tile-width", "openslide.level[3].width",
     "openslide.mpp-x", "openslide.mpp-y", "openslide.objective-power",
     "openslide.quickhash-1", "openslide.vendor", "tiff.ImageDescription",
     "tiff.ResolutionUnit"}

\* Python's None and a present value, as sequences of length 0 and 1
None == <<>>
Some(v) == <<v>>

\* dict.get(key, default) on a mapping of present values
dict_get(d, key, default) == IF key \in DOMAIN d THEN Some(d[key]) ELSE default

\* _slide_metadata_dict iterating the slide's own properties
slide_metadata_dict_OwnKeys(props) ==
    [key \in DOMAIN props |-> dict_get(props, key, None)]

\* SVSProcessor._slide_metadata_dict
slide_metadata_dict(props) ==
    [key \in SLIDE_METADATA |-> dict_get(props, key, None)]

\* property names a slide of the model may carry: five of the table and one
\* that the table does not list
PropertyNames ==
    {"openslide.level[0].tile-height", "openslide.level[0].tile-width",
     "openslide.level[0].height", "openslide.level[0].width",
     "tiff.ResolutionUnit", "aperio.Title"}

\* the n-th value a property may have; openslide property values are strings
PropertyValue(key, n) ==
    IF key = "tiff.ResolutionUnit"
    THEN (IF n = 1 THEN <<"centimeter">> ELSE <<"inch">>)
    ELSE IF key = "aperio.Title" THEN <<"title">> \o Str(n)
    ELSE Str(240 * n)

Properties ==
    UNION {{[key \in S |-> PropertyValue(key, sel[key])] :
                sel \in [S -> 1..MaxPropertyValues]} :
           S \in SUBSET PropertyNames}

\* the properties of the slide in the runs that do not vary them
SampleProperties == [key \in PropertyNames |-> PropertyValue(key, 1)]

(* ---------------------------------------------------------------------- *)
(* Futures and their results                                               *)
(* ---------------------------------------------------------------------- *)
NoRaster == [width |-> 0, height |-> 0, pasted |-> {}]
NoResult == [kind |-> "none", cause |-> "none", image_pixel |-> NoRaster]
Value(px) == [kind |-> "value", cause |-> "none", image_pixel |-> px]
Error(c) == [kind |-> "error", cause |-> c, image_pixel |-> NoRaster]

Tasks == 1..Len(regions)

\* threads: the caller of pixel_array and the pool thread that runs task i
MainThread == <<"main", 0>>
Worker(i) == <<"worker", i>>
\* objects: the dict 'images' and the full_image of task i
ImagesDict == <<"images", 0>>
FullImage(i) == <<"full_image", i>>
Write(t, o) == [thread |-> t, object |-> o]

\* Future.done() answering for a call that has only started
future_done_Started(i) == task[i] \in {"running", "done", "failed"}

\* Future.done(): the call has returned or raised
future_done(i) == task[i] \in {"done", "failed"}

Failed == {i \in Tasks : task[i] = "failed"}
Succeeded == {i \in Tasks : task[i] = "done"}

\* the tile grid of the level that is split
Grid(lt) == (0..(lt[1] - 1)) \X (0..(lt[2] - 1))

\* get_tile raises for an address outside the level and for an unreadable tile
get_tile_raises(t) == t \notin Grid(level_tiles) \/ t \in badTiles

\* the paste offset in tiles instead of pixels
paste_offset_NoScale(c, t) == <<t[1] - c.x1, t[2] - c.y1>>

\* offset at which _process_image pastes tile t of region c
paste_offset(c, t) == <<(t[1] - c.x1) * TileEdge, (t[2] - c.y1) * TileEdge>>

\* np.array(full_image) once the first n tiles of region c are pasted
raster(c, n) ==
    [width |-> image_width(c), height |-> image_height(c),
     pasted |-> {<<paste_offset(c, tile_image_index(c)[k]),
                   tile_image_index(c)[k]>> : k \in 1..n}]

\* the insertion without the try/except around future.result()
images_after_result_Unguarded(d, i) ==
    (image_filename(regions[i]) :> result[i].image_pixel) @@ d

\* the except branch without its print
stdout_after_result_Silent(out, i) == out

\* try: images[result['image_filename']] = result['image_pixel']
images_after_result(d, i) ==
    IF result[i].kind = "value"
    THEN (image_filename(regions[i]) :> result[i].image_pixel) @@ d
    ELSE d

\* except Exception as e: print(... {image_coord}: {e})
stdout_after_result(out, i) ==
    IF result[i].kind = "value"
    THEN out
    ELSE Append(out, [image_coord |-> regions[i], e |-> result[i].cause])

\* no PyramidTIFFGenerator has been constructed
NoGenerator ==
    /\ gen_image = EmptyDict
    /\ gen_metadata = None
    /\ ppc = "none"
    /\ emitted = {}
    /\ calls = <<>>
    /\ tiffs = {}
    /\ gexc = "none"
    /\ gret = None

(* ---------------------------------------------------------------------- *)
(* Initial states                                                          *)
(* ---------------------------------------------------------------------- *)
\* pixel sizes whose tile count is at most m: whole and half-filled last tile
PixelSizes(m) == {k * TileEdge - o : k \in 1..m, o \in {0, TileEdge \div 2}}

BadTileSets(lt) == {S \in SUBSET Grid(lt) : Cardinality(S) <= MaxBad}

InitRun ==
    /\ pc = "idle"
    /\ exc = "none"
    /\ split = NoSplit
    /\ regions = <<>>
    /\ nsubmitted = 0
    /\ task = <<>>
    /\ tpos = <<>>
    /\ canvas = <<>>
    /\ writes = {}
    /\ gets = <<>>
    /\ result = <<>>
    /\ images = EmptyDict
    /\ collected = {}
    /\ stdout = <<>>
    /\ files = {}
    /\ ret = EmptyDict
    /\ properties = SampleProperties
    /\ slide_metadata = slide_metadata_dict(properties)
    /\ NoGenerator

Init ==
    /\ nimages \in 1..RunMaxImages
    /\ level_dimensions \in PixelSizes(RunMaxW) \X PixelSizes(RunMaxH)
    /\ save \in BOOLEAN
    /\ format = DefaultFormat
    /\ badTiles \in BadTileSets(level_tiles)
    /\ InitRun

(* ---------------------------------------------------------------------- *)
(* pixel_array, the calling thread                                         *)
(* ---------------------------------------------------------------------- *)
\* images = {} and entry into the 'with ThreadPoolExecutor()' block
CallPixelArray ==
    /\ pc = "idle"
    /\ pc' = "comprehension"
    /\ images' = EmptyDict
    /\ writes' = writes \cup {Write(MainThread, ImagesDict)}
    /\ UNCHANGED <<generator, metadata, inputs, canvas, exc, split, regions, nsubmitted, task, tpos, gets, result, collected, stdout, files, ret>>

\* the iterable of the dict comprehension: self._image_split_cordinates(),
\* which first calls self._split_per_image(); an exception leaves the with
\* block (no future exists yet) and reaches the caller
ComputeRegions ==
    /\ pc = "comprehension"
    /\ LET s == split_per_image(nimages, aspect_ratio(level_dimensions))
           r == image_split_cordinates(s.value, level_tiles)
       IN  IF s.kind = "ok"
           THEN /\ split' = s.value
                /\ regions' = r
                /\ task' = [i \in 1..Len(r) |-> "unsubmitted"]
                /\ tpos' = [i \in 1..Len(r) |-> 0]
                /\ canvas' = [i \in 1..Len(r) |-> NoRaster]
                /\ gets' = [i \in 1..Len(r) |-> <<>>]
                /\ result' = [i \in 1..Len(r) |-> NoResult]
                /\ pc' = "submit"
                /\ exc' = exc
           ELSE /\ pc' = "raised"
                /\ exc' = s.kind
                /\ UNCHANGED <<split, regions, task, tpos, canvas, gets, result>>
    /\ UNCHANGED <<generator, metadata, inputs, writes, nsubmitted, images, collected, stdout, files, ret>>

\* executor.submit(self._process_image, image_coord, save, format)
Submit ==
    /\ pc = "submit"
    /\ nsubmitted < Len(regions)
    /\ nsubmitted' = nsubmitted + 1
    /\ task' = [task EXCEPT ![nsubmitted + 1] = "pending"]
    /\ pc' = IF nsubmitted + 1 = Len(regions) THEN "wait" ELSE "submit"
    /\ UNCHANGED <<generator, metadata, inputs, canvas, writes, exc, split, regions, tpos, gets, result, images, collected, stdout, files, ret>>

\* concurrent.futures.wait(futures): returns when every future is done
Wait ==
    /\ pc = "wait"
    /\ \A i \in Tasks : future_done(i)
    /\ pc' = "collect"
    /\ UNCHANGED <<generator, metadata, inputs, canvas, writes, exc, split, regions, nsubmitted, task, tpos, gets, result, images, collected, stdout, files, ret>>

\* one iteration of 'for future in as_completed(futures)'
Collect(i) ==
    /\ pc = "collect"
    /\ i \notin collected
    /\ future_done(i)
    /\ collected' = collected \cup {i}
    /\ images' = images_after_result(images, i)
    /\ stdout' = stdout_after_result(stdout, i)
    /\ writes' = IF images' = images THEN writes
                 ELSE writes \cup {Write(MainThread, ImagesDict)}
    /\ UNCHANGED <<generator, metadata, inputs, canvas, pc, exc, split, regions, nsubmitted, task, tpos, gets, result, files, ret>>

\* as_completed is exhausted, the with block shuts the executor down
\* (shutdown(wait=True)) and 'return images' runs
Return ==
    /\ pc = "collect"
    /\ collected = Tasks
    /\ \A i \in Tasks : future_done(i)
    /\ pc' = "returned"
    /\ ret' = images
    /\ UNCHANGED <<generator, metadata, inputs, canvas, writes, exc, split, regions, nsubmitted, task, tpos, gets, result, images, collected, stdout, files>>

(* ---------------------------------------------------------------------- *)
(* _process_image, run by a worker thread of the pool                      *)
(* ---------------------------------------------------------------------- *)
\* _process_image with the 'if save:' block before the tile loop
StartTask_SaveFirst(i) ==
    /\ task[i] = "pending"
    /\ image_width(regions[i]) >= 0 /\ image_height(regions[i]) >= 0
    /\ task' = [task EXCEPT ![i] = "running"]
    /\ canvas' = [canvas EXCEPT ![i] =
                     [width |-> image_width(regions[i]),
                      height |-> image_height(regions[i]),
                      pasted |-> {}]]
    /\ writes' = writes \cup {Write(Worker(i), FullImage(i))}
    /\ files' = IF save THEN files \cup {save_path(regions[i], format)}
                ELSE files
    /\ UNCHANGED <<generator, metadata, inputs, pc, exc, split, regions,
                   nsubmitted, tpos, gets, result, images, collected, stdout,
                   ret>>

\* ImageCordinates(...) and Image.new('RGB', (width, height)), which raises
\* ValueError for a negative size
StartTask(i) ==
    /\ task[i] = "pending"
    /\ IF image_width(regions[i]) < 0 \/ image_height(regions[i]) < 0
       THEN /\ task' = [task EXCEPT ![i] = "failed"]
            /\ result' = [result EXCEPT ![i] = Error("ValueError")]
            /\ UNCHANGED <<canvas, writes>>
       ELSE /\ task' = [task EXCEPT ![i] = "running"]
            /\ result' = result
            /\ canvas' = [canvas EXCEPT ![i] =
                             [width |-> image_width(regions[i]),
                              height |-> image_height(regions[i]),
                              pasted |-> {}]]
            /\ writes' = writes \cup {Write(Worker(i), FullImage(i))}
    /\ UNCHANGED <<generator, metadata, inputs, pc, exc, split, regions, nsubmitted, tpos, gets,
                   images, collected, stdout, files, ret>>

\* one iteration of 'for tile in image.tile_cordinates': get_tile and paste
FetchTile(i) ==
    /\ task[i] = "running"
    /\ tpos[i] < Len(tile_image_index(regions[i]))
    /\ LET t == tile_image_index(regions[i])[tpos[i] + 1]
       IN  /\ gets' = [gets EXCEPT ![i] = Append(@, <<level_to_split, t>>)]
           /\ IF get_tile_raises(t)
              THEN /\ task' = [task EXCEPT ![i] = "failed"]
                   /\ result' = [result EXCEPT ![i] = Error("get_tile")]
                   /\ UNCHANGED <<tpos, canvas, writes>>
              ELSE /\ tpos' = [tpos EXCEPT ![i] = @ + 1]
                   /\ canvas' = [canvas EXCEPT ![i].pasted =
                                    @ \cup {<<paste_offset(regions[i], t), t>>}]
                   /\ writes' = writes \cup {Write(Worker(i), FullImage(i))}
                   /\ UNCHANGED <<task, result>>
    /\ UNCHANGED <<generator, metadata, inputs, pc, exc, split, regions, nsubmitted, images,
                   collected, stdout, files, ret>>

\* _process_image publishing its raster in a dict shared by the workers
FinishTask_SharedDict(i) ==
    /\ task[i] = "running"
    /\ tpos[i] = Len(tile_image_index(regions[i]))
    /\ files' = IF save THEN files \cup {save_path(regions[i], format)}
                ELSE files
    /\ task' = [task EXCEPT ![i] = "done"]
    /\ result' = [result EXCEPT ![i] = Value(canvas[i])]
    /\ images' = (image_filename(regions[i]) :> canvas[i]) @@ images
    /\ writes' = writes \cup {Write(Worker(i), ImagesDict)}
    /\ UNCHANGED <<generator, metadata, inputs, canvas, pc, exc, split, regions, nsubmitted, tpos,
                   gets, collected, stdout, ret>>

\* the loop is over: optional full_image.save, np.array, return
FinishTask(i) ==
    /\ task[i] = "running"
    /\ tpos[i] = Len(tile_image_index(regions[i]))
    /\ files' = IF save THEN files \cup {save_path(regions[i], format)}
                ELSE files
    /\ task' = [task EXCEPT ![i] = "done"]
    /\ result' = [result EXCEPT ![i] = Value(canvas[i])]
    /\ UNCHANGED <<generator, metadata, inputs, canvas, writes, pc, exc, split, regions, nsubmitted,
                   tpos, gets, images, collected, stdout, ret>>

\* full_image.save raises (the sink cannot be written)
SaveFails(i) ==
    /\ task[i] = "running"
    /\ tpos[i] = Len(tile_image_index(regions[i]))
    /\ save
    /\ task' = [task EXCEPT ![i] = "failed"]
    /\ result' = [result EXCEPT ![i] = Error("save")]
    /\ UNCHANGED <<generator, metadata, inputs, canvas, writes, pc, exc, split, regions, nsubmitted,
                   tpos, gets, images, collected, stdout, files, ret>>

Next ==
    \/ CallPixelArray
    \/ ComputeRegions
    \/ Submit
    \/ Wait
    \/ \E i \in Tasks : Collect(i)
    \/ Return
    \/ \E i \in Tasks : StartTask(i)
    \/ \E i \in Tasks : FetchTile(i)
    \/ \E i \in Tasks : FinishTask(i)
    \/ \E i \in Tasks : SaveFails(i)

Spec == Init /\ [][Next]_vars

(* ---------------------------------------------------------------------- *)
(* pixel_array called with a format of the caller's choice                 *)
(* ---------------------------------------------------------------------- *)
\* the format is read only inside 'if save:'
InitSave ==
    /\ nimages \in 1..RunMaxImages
    /\ level_dimensions \in PixelSizes(RunMaxW) \X PixelSizes(RunMaxH)
    /\ save \in BOOLEAN
    /\ format \in (IF save THEN Formats ELSE {DefaultFormat})
    /\ badTiles \in BadTileSets(level_tiles)
    /\ InitRun

SpecSave == InitSave /\ [][Next]_vars

(* ---------------------------------------------------------------------- *)
(* Region indexing alone: pixel_array up to the end of                     *)
(* _image_split_cordinates, over larger grids and counts                   *)
(* ---------------------------------------------------------------------- *)
InitIndexer ==
    /\ nimages \in 1..MaxImages
    /\ level_dimensions \in PixelSizes(MaxGridW) \X PixelSizes(MaxGridH)
    /\ save = FALSE
    /\ format = DefaultFormat
    /\ badTiles = {}
    /\ InitRun

NextIndexer == CallPixelArray \/ ComputeRegions

SpecIndexer == InitIndexer /\ [][NextIndexer]_vars

(* ---------------------------------------------------------------------- *)
(* The region loop of _image_split_cordinates as a function of the split   *)
(* factor it is handed                                                     *)
(* ---------------------------------------------------------------------- *)
InitLoop ==
    /\ split \in (1..MaxSplit) \X (1..MaxSplit)
    /\ nimages = split[1] * split[2]
    /\ level_dimensions \in
           {k * TileEdge : k \in 1..MaxGridW} \X {k * TileEdge : k \in 1..MaxGridH}
    /\ save = FALSE
    /\ format = DefaultFormat
    /\ badTiles = {}
    /\ pc = "loop"
    /\ exc = "none"
    /\ regions = <<>>
    /\ nsubmitted = 0
    /\ task = <<>>
    /\ tpos = <<>>
    /\ canvas = <<>>
    /\ writes = {}
    /\ gets = <<>>
    /\ result = <<>>
    /\ images = EmptyDict
    /\ collected = {}
    /\ stdout = <<>>
    /\ files = {}
    /\ ret = EmptyDict
    /\ properties = SampleProperties
    /\ slide_metadata = slide_metadata_dict(properties)
    /\ NoGenerator

\* lines 267-345 for the split factor in 'split'
RegionLoop ==
    /\ pc = "loop"
    /\ regions' = image_split_cordinates(split, level_tiles)
    /\ pc' = "looped"
    /\ UNCHANGED <<generator, metadata, inputs, canvas, writes, exc, split, nsubmitted, task, tpos, gets, result, images, collected, stdout, files, ret>>

SpecLoop == InitLoop /\ [][RegionLoop]_vars

(* ---------------------------------------------------------------------- *)
(* Properties                                                              *)
(* ---------------------------------------------------------------------- *)
RegionsComputed == pc \in {"submit", "wait", "collect", "returned", "looped"}
SplitDecided == pc \notin {"idle", "comprehension", "loop"}

Col(c) == c.image[1] - 1
Row(c) == c.image[2] - 1
base_cols == level_tiles[1] \div split[1]
base_rows == level_tiles[2] \div split[2]
rem_cols == level_tiles[1] % split[1]
rem_rows == level_tiles[2] % split[2]

Area(c) == Cardinality(Box(c))

RECURSIVE SumArea(_)
SumArea(k) == IF k = 0 THEN 0 ELSE Area(regions[k]) + SumArea(k - 1)

Covering(cell) == {k \in 1..Len(regions) : cell \in Box(regions[k])}

\* C1: the boxes of the regions cover every cell of the tile grid exactly
\* once, and their areas add up to W * H
C1_PartitionLaw ==
    RegionsComputed =>
        /\ \A cell \in Grid(level_tiles) : Cardinality(Covering(cell)) = 1
        /\ SumArea(Len(regions)) = level_tiles[1] * level_tiles[2]

\* C2: a box is base_cols wide, plus rem_cols only in the last column, and
\* base_rows high, plus rem_rows only in the last row
C2_RemainderDistribution ==
    RegionsComputed =>
        \A k \in 1..Len(regions) :
            LET c == regions[k]
            IN  /\ c.x2 - c.x1 =
                       IF Col(c) = split[1] - 1 THEN base_cols + rem_cols
                                                ELSE base_cols
                /\ c.y3 - c.y1 =
                       IF Row(c) = split[2] - 1 THEN base_rows + rem_rows
                                                ELSE base_rows

C4_RemainderExample ==
    (RegionsComputed /\ level_tiles = <<10, 7>> /\ split = <<3, 2>>) =>
        /\ <<base_cols, base_rows>> = <<3, 3>>
        /\ <<rem_cols, rem_rows>> = <<1, 1>>
        /\ \E k \in 1..Len(regions) : regions[k].image = <<3, 2>>
        /\ \E k \in 1..Len(regions) : regions[k].image = <<1, 1>>
        /\ \A k \in 1..Len(regions) :
              LET c == regions[k]
              IN  /\ c.image = <<3, 2>> =>
                        <<c.x1, c.x2, c.y1, c.y3>> = <<6, 10, 3, 7>>
                  /\ c.image = <<1, 1>> =>
                        <<c.x1, c.x2, c.y1, c.y3>> = <<0, 3, 0, 3>>

C4_Witness ==
    /\ pc = "submit"
    /\ level_tiles = <<10, 7>>
    /\ split = <<3, 2>>
    /\ Len(regions) = 6

\* C5: the split factor is (1, 1) for a count of 1 and
\* (count / 2, count / (count / 2)) for an even count with aspect (2, 1), and
\* in both cases columns * rows is the count
C5_SplitRule ==
    SplitDecided =>
        /\ nimages = 1 => (pc # "raised" /\ split = <<1, 1>>)
        /\ (nimages % 2 = 0 /\ aspect_ratio(level_dimensions) = <<2, 1>>) =>
               /\ pc # "raised"
               /\ split[1] = nimages \div 2
               /\ split[2] * split[1] = nimages
        /\ Supported(nimages, aspect_ratio(level_dimensions)) =>
               split[1] * split[2] = nimages

C5_Witness ==
    /\ pc = "submit"
    /\ nimages = 2
    /\ aspect_ratio(level_dimensions) = <<2, 1>>
    /\ split = <<1, 2>>

\* C6: an unsupported (count, aspect) pair ends the split step in a
\* dedicated configuration error
C6_ConfigurationError ==
    (SplitDecided /\ ~Supported(nimages, aspect_ratio(level_dimensions))) =>
        /\ pc = "raised"
        /\ exc = "ConfigurationError"

\* C7: with an unsupported (count, aspect) pair pixel_array ends in an error
\* at its caller, and no region was computed, no task submitted, no tile
\* fetched and no file written
C7_NoWorkBeforeError ==
    (SplitDecided /\ ~Supported(nimages, aspect_ratio(level_dimensions))) =>
        /\ pc = "raised"
        /\ exc # "none"
        /\ regions = <<>>
        /\ nsubmitted = 0
        /\ task = <<>>
        /\ gets = <<>>
        /\ files = {}
        /\ DOMAIN images = {}

C7_Witness ==
    /\ pc = "raised"
    /\ nimages = 3
    /\ aspect_ratio(level_dimensions) = <<2, 1>>
    /\ exc # "none"

\* no tile of the box of region i makes get_tile raise
CleanRegion(i) ==
    \A k \in 1..Len(tile_image_index(regions[i])) :
        ~get_tile_raises(tile_image_index(regions[i])[k])

\* C8: a region whose stitch raises has no entry in the returned mapping,
\* every other region ran to completion and has its entry, and pixel_array
\* itself does not raise
C8_FailureIsolation ==
    /\ Supported(nimages, aspect_ratio(level_dimensions)) => pc # "raised"
    /\ pc = "returned" =>
        /\ exc = "none"
        /\ Tasks = Succeeded \cup Failed
        /\ DOMAIN ret = {image_filename(regions[i]) : i \in Succeeded}
        /\ \A i \in Failed : image_filename(regions[i]) \notin DOMAIN ret
        /\ \A i \in Succeeded :
               ret[image_filename(regions[i])] = raster(regions[i], tpos[i])
        /\ \A i \in Tasks : (CleanRegion(i) /\ ~save) => i \in Succeeded
        /\ Cardinality(DOMAIN ret) = Len(regions) - Cardinality(Failed)

C8_Witness ==
    /\ pc = "returned"
    /\ Len(regions) = 4
    /\ Cardinality(Failed) = 1
    /\ Cardinality(DOMAIN ret) = 3

\* C9 as stated: every failed region is recorded in what pixel_array returns
C9_ReturnedFailureRecord ==
    pc = "returned" =>
        \A i \in Failed : image_filename(regions[i]) \in DOMAIN ret

\* C9 as amended: what pixel_array returns holds the stitched subset only;
\* every failed region has one printed line with its coordinates and cause
C9_PrintedFailureRecord ==
    pc = "returned" =>
        /\ DOMAIN ret = {image_filename(regions[i]) : i \in Succeeded}
        /\ \A i \in Failed :
              \E k \in 1..Len(stdout) :
                  stdout[k] = [image_coord |-> regions[i], e |-> result[i].cause]
        /\ Len(stdout) = Cardinality(Failed)

C9_Witness ==
    /\ pc = "returned"
    /\ Failed # {}
    /\ Succeeded # {}
    /\ Len(stdout) = Cardinality(Failed)

\* C10: when pixel_array returns, every region was submitted and every
\* submitted task has finished; none is pending or running
C10_FanInCompletion ==
    pc = "returned" =>
        /\ nsubmitted = Len(regions)
        /\ \A i \in Tasks : task[i] \in {"done", "failed"}
        /\ \A i \in Tasks : result[i].kind \in {"value", "error"}

C10_Witness ==
    /\ pc = "returned"
    /\ Len(regions) = 4
    /\ \A i \in Tasks : task[i] \in {"done", "failed"}

(* ---------------------------------------------------------------------- *)
(* Properties of the stitching and of the fan-in                           *)
(* ---------------------------------------------------------------------- *)
FullTiles(c) == Len(tile_image_index(c))

\* the mapping built by stitching regions 1..k one after another
RECURSIVE SequentialStitch(_)
SequentialStitch(k) ==
    IF k = 0 THEN EmptyDict
    ELSE IF CleanRegion(k)
         THEN (image_filename(regions[k]) :>
                   raster(regions[k], FullTiles(regions[k])))
              @@ SequentialStitch(k - 1)
         ELSE SequentialStitch(k - 1)

NoSaveFailed == \A i \in Tasks : result[i].cause # "save"

\* C11: for a fixed tile source and region list the returned mapping is the
\* same in every interleaving and completion order, and equals the mapping
\* of stitching the regions one after another
C11_InterleavingIndependence ==
    (pc = "returned" /\ NoSaveFailed) => ret = SequentialStitch(Len(regions))

C11_Witness ==
    /\ pc = "returned"
    /\ NoSaveFailed
    /\ Len(regions) = 4
    /\ Cardinality(DOMAIN ret) >= 3
    /\ ret = SequentialStitch(Len(regions))

\* C12: the identifiers of the regions of a run are pairwise distinct, no
\* insertion overwrites an entry, and without failures the mapping has
\* columns * rows entries
C12_UniqueIdentifiers ==
    /\ RegionsComputed =>
          \A i, j \in Tasks :
              i # j => image_filename(regions[i]) # image_filename(regions[j])
    /\ pc = "collect" =>
          \A i \in Tasks \ collected :
              image_filename(regions[i]) \notin DOMAIN images
    /\ (pc = "returned" /\ Failed = {}) =>
          Cardinality(DOMAIN ret) = split[1] * split[2]

C12_Witness ==
    /\ pc = "returned"
    /\ Failed = {}
    /\ split = <<2, 2>>
    /\ Cardinality(DOMAIN ret) = 4

\* C13: only the calling thread writes the result mapping, it does so while
\* no worker task is running, and the raster of a region is written only by
\* the worker that stitches that region
C13_NoConcurrentWrite ==
    /\ \A w \in writes :
          /\ w.object = ImagesDict => w.thread = MainThread
          /\ w.object[1] = "full_image" => w.thread = Worker(w.object[2])
    /\ DOMAIN images # {} =>
          /\ pc \in {"collect", "returned"}
          /\ \A i \in Tasks : task[i] \in {"done", "failed"}

C13_Witness ==
    /\ pc = "returned"
    /\ Cardinality(DOMAIN ret) >= 2
    /\ Write(MainThread, ImagesDict) \in writes
    /\ \E i, j \in Tasks :
          /\ i # j
          /\ Write(Worker(i), FullImage(i)) \in writes
          /\ Write(Worker(j), FullImage(j)) \in writes

Allocated(i) == Write(Worker(i), FullImage(i)) \in writes

\* C14: the raster of a region is (end_col - start_col) * 256 wide and
\* (end_row - start_row) * 256 high
C14_StitchedSize ==
    /\ \A i \in Tasks :
          Allocated(i) =>
              /\ canvas[i].width = (regions[i].x2 - regions[i].x1) * 256
              /\ canvas[i].height = (regions[i].y3 - regions[i].y1) * 256
    /\ pc = "returned" =>
          \A i \in Succeeded :
              LET px == ret[image_filename(regions[i])]
              IN  /\ px.width = (regions[i].x2 - regions[i].x1) * 256
                  /\ px.height = (regions[i].y3 - regions[i].y1) * 256

C14_Witness ==
    \E i \in Tasks :
        /\ task[i] = "done"
        /\ regions[i].x2 - regions[i].x1 = 2
        /\ regions[i].y3 - regions[i].y1 = 1
        /\ canvas[i].width = 512
        /\ canvas[i].height = 256

\* the 256 x 256 rectangles at offsets a and b have no pixel in common
DisjointRects(a, b) ==
    \/ a[1] + 256 <= b[1]
    \/ b[1] + 256 <= a[1]
    \/ a[2] + 256 <= b[2]
    \/ b[2] + 256 <= a[2]

\* C15: tile (x, y) of a region is pasted at
\* ((x - start_col) * 256, (y - start_row) * 256), the destinations of two
\* tiles of a region do not overlap, and each lies inside the raster
C15_DisjointDestinations ==
    \A i \in Tasks :
        /\ Cardinality(canvas[i].pasted) = tpos[i]
        /\ \A p \in canvas[i].pasted :
              /\ p[1] = <<(p[2][1] - regions[i].x1) * 256,
                          (p[2][2] - regions[i].y1) * 256>>
              /\ 0 <= p[1][1] /\ p[1][1] + 256 <= canvas[i].width
              /\ 0 <= p[1][2] /\ p[1][2] + 256 <= canvas[i].height
        /\ \A p, q \in canvas[i].pasted :
              p[2] # q[2] => DisjointRects(p[1], q[1])

C15_Witness ==
    \E i \in Tasks :
        /\ task[i] = "done"
        /\ Cardinality(canvas[i].pasted) >= 2

\* C20: a successful _process_image calls get_tile once for every tile index
\* of the region's box, for no other index, and always at level
\* level_count - 1
C20_FetchSet ==
    \A i \in Succeeded :
        /\ Len(gets[i]) = Cardinality(Box(regions[i]))
        /\ {gets[i][k] : k \in 1..Len(gets[i])} =
               {<<level_count - 1, t>> : t \in Box(regions[i])}

C20_Witness ==
    \E i \in Succeeded :
        /\ Len(gets[i]) >= 2
        /\ pc = "returned"

(* ---------------------------------------------------------------------- *)
(* SVSProcessor.__init__ up to self._slide_metadata, over the slides'      *)
(* properties                                                              *)
(* ---------------------------------------------------------------------- *)
NoRun ==
    /\ exc = "none"
    /\ split = NoSplit
    /\ regions = <<>>
    /\ nsubmitted = 0
    /\ task = <<>>
    /\ tpos = <<>>
    /\ canvas = <<>>
    /\ writes = {}
    /\ gets = <<>>
    /\ result = <<>>
    /\ images = EmptyDict
    /\ collected = {}
    /\ stdout = <<>>
    /\ files = {}
    /\ ret = EmptyDict

InitMetadata ==
    /\ nimages = 1
    /\ level_dimensions = <<TileEdge, TileEdge>>
    /\ save = FALSE
    /\ format = DefaultFormat
    /\ badTiles = {}
    /\ pc = "construct"
    /\ NoRun
    /\ properties \in Properties
    /\ slide_metadata = EmptyDict
    /\ NoGenerator

\* self._slide_metadata = self._slide_metadata_dict()
SlideMetadataDict ==
    /\ pc = "construct"
    /\ slide_metadata' = slide_metadata_dict(properties)
    /\ pc' = "idle"
    /\ UNCHANGED <<generator, inputs, properties, canvas, writes, exc, split,
                   regions, nsubmitted, task, tpos, gets, result, images,
                   collected, stdout, files, ret>>

SpecMetadata == InitMetadata /\ [][SlideMetadataDict]_vars

\* C16: the metadata mapping has exactly the keys of SLIDE_METADATA; a key
\* the slide lacks maps to None, a key the slide has maps to the slide's
\* value, and a property outside the table does not appear
C16_MetadataKeySet ==
    pc # "construct" =>
        /\ DOMAIN slide_metadata = SLIDE_METADATA
        /\ \A key \in SLIDE_METADATA :
              /\ key \notin DOMAIN properties => slide_metadata[key] = None
              /\ key \in DOMAIN properties =>
                     slide_metadata[key] = Some(properties[key])
        /\ \A key \in DOMAIN properties \ SLIDE_METADATA :
              key \notin DOMAIN slide_metadata

C16_Witness ==
    /\ pc = "idle"
    /\ "aperio.Title" \in DOMAIN properties
    /\ "tiff.ResolutionUnit" \notin DOMAIN properties
    /\ "openslide.level[0].width" \in DOMAIN properties
    /\ slide_metadata["tiff.ResolutionUnit"] = None
    /\ slide_metadata["openslide.level[0].width"] = Some(<<"4", "8", "0">>)
    /\ Cardinality(DOMAIN slide_metadata) = 58

(* ---------------------------------------------------------------------- *)
(* PyramidTIFFGenerator: pyramid_file                                      *)
(* ---------------------------------------------------------------------- *)
\* TIFF_BASE_METADATA
TIFF_BASE_METADATA == ("axes" :> <<"YXS">>) @@ ("SignificantBits" :> <<8>>)

\* tile edge when the metadata has none
DefaultTile == 256

\* resolution unit when the metadata has none
DefaultResolutionUnit == <<"CENTIMETER">>

\* pixelsize = 0.29, in hundredths
pixelsize == 29

\* resolution=(1e4 / pixelsize, 1e4 / pixelsize), rounded down
resolution == <<(10000 * 100) \div pixelsize, (10000 * 100) \div pixelsize>>

\* subresolutions = 2
subresolutions == 2

Digits == {Str(d)[1] : d \in 0..9}

DigitValue(ch) == CHOOSE d \in 0..9 : Str(d) = <<ch>>

RECURSIVE DigitsValue(_)
DigitsValue(s) ==
    IF s = <<>> THEN 0
    ELSE 10 * DigitsValue(SubSeq(s, 1, Len(s) - 1)) + DigitValue(s[Len(s)])

IntOk(n) == [kind |-> "ok", value |-> n]

IntError(e) == [kind |-> e, value |-> 0]

\* int(s) of a string
PyInt(s) ==
    IF s # <<>> /\ \A k \in 1..Len(s) : s[k] \in Digits
    THEN IntOk(DigitsValue(s)) ELSE IntError("ValueError")

\* int(metadata.get(key, 256))
tile_edge(md, key) ==
    IF key \in DOMAIN md THEN PyInt(md[key]) ELSE IntOk(DefaultTile)

\* int(metadata.get(key)): int(None) is a TypeError
shape_edge(md, key) ==
    IF key \in DOMAIN md THEN PyInt(md[key]) ELSE IntError("TypeError")

\* metadata.get("tiff.ResolutionUnit", 'CENTIMETER')
resolutionunit(md) ==
    IF "tiff.ResolutionUnit" \in DOMAIN md
    THEN md["tiff.ResolutionUnit"] ELSE DefaultResolutionUnit

\* metadata after the update with TIFF_BASE_METADATA and with the items of
\* image_metadata whose value is not None
tiff_metadata(image_metadata) ==
    LET kept == {key \in DOMAIN image_metadata : image_metadata[key] # None}
    IN  [key \in kept |-> image_metadata[key][1]] @@ TIFF_BASE_METADATA

\* the first exception among the int() calls, in evaluation order
first_error(rs) ==
    IF \A k \in 1..Len(rs) : rs[k].kind = "ok" THEN "none"
    ELSE rs[CHOOSE k \in 1..Len(rs) :
                /\ rs[k].kind # "ok"
                /\ \A j \in 1..(k - 1) : rs[j].kind = "ok"].kind

\* what tif.write(None, ...) does is the library's: it writes an empty
\* series of the given shape or rejects the arguments
WriteOutcomes(pixel_data) ==
    IF pixel_data = None THEN {"written", "ValueError"} ELSE {"written"}

NoWrite == [tile |-> <<>>, resolutionunit |-> <<>>, shape |-> <<>>,
            resolution |-> <<>>, subfiletype |-> 0, metadata |-> EmptyDict]

\* pyramid_file(filename, pixel_data, image_metadata) as the call it is: the
\* file TiffWriter opens, the exception that ends it or the write it makes;
\* w is what tif.write does with the arguments
pyramid_file(filename, pixel_data, image_metadata, w) ==
    LET call == [filename |-> filename, pixel_data |-> pixel_data,
                 image_metadata |-> image_metadata,
                 file |-> filename \o <<".tiff">>]
    IN  IF image_metadata = None
        THEN call @@ [outcome |-> "AttributeError", write |-> NoWrite]
        ELSE LET md == tiff_metadata(image_metadata[1])
                 th == tile_edge(md, "openslide.level[0].tile-height")
                 tw == tile_edge(md, "openslide.level[0].tile-width")
                 sh == shape_edge(md, "openslide.level[0].height")
                 sw == shape_edge(md, "openslide.level[0].width")
                 err == first_error(<<th, tw, sh, sw>>)
             IN  IF err # "none"
                 THEN call @@ [outcome |-> err, write |-> NoWrite]
                 ELSE call @@
                      [outcome |-> w,
                       write |-> [tile |-> <<th.value, tw.value>>,
                                  resolutionunit |-> resolutionunit(md),
                                  shape |-> <<sh.value, sw.value>>,
                                  resolution |-> resolution,
                                  subfiletype |-> subresolutions,
                                  metadata |-> md]]

\* str() of a value that is None or a string
PyStr(v) == IF v = None THEN <<"None">> ELSE v[1]

(* ---------------------------------------------------------------------- *)
(* PyramidTIFFGenerator over the dictionary pixel_array returned           *)
(* ---------------------------------------------------------------------- *)
\* PyramidTIFFGenerator(pixel, 'svs'[, metadata_dict]): the dict branch
Construct ==
    /\ pc = "returned"
    /\ ppc = "none"
    /\ gen_image' = ret
    /\ \E metadata_dict \in {None, Some(slide_metadata)} :
           gen_metadata' = metadata_dict
    /\ ppc' = "constructed"
    /\ UNCHANGED <<emitted, calls, tiffs, gexc, gret>>
    /\ UNCHANGED <<metadata, inputs, canvas, writes, pc, exc, split, regions,
                   nsubmitted, task, tpos, gets, result, images, collected,
                   stdout, files, ret>>

\* entry into generate_pyramid
GeneratePyramid ==
    /\ ppc = "constructed"
    /\ ppc' = "loop"
    /\ UNCHANGED <<gen_image, gen_metadata, emitted, calls, tiffs, gexc, gret>>
    /\ UNCHANGED <<metadata, inputs, canvas, writes, pc, exc, split, regions,
                   nsubmitted, task, tpos, gets, result, images, collected,
                   stdout, files, ret>>

\* one iteration of 'for image in self._image'
LoopCall(image) ==
    /\ ppc = "loop"
    /\ image \in DOMAIN gen_image \ emitted
    /\ LET filename ==
               PyStr(dict_get(gen_image, <<"image_filename">>, None))
                   \o <<"_">> \o image
           pixel_data == dict_get(gen_image, <<"image_pixel">>, None)
       IN  \E w \in WriteOutcomes(pixel_data) :
             LET call == pyramid_file(filename, pixel_data, gen_metadata, w)
                             @@ [via |-> "generate_pyramid"]
             IN  /\ calls' = Append(calls, call)
                 /\ tiffs' = tiffs \cup {call.file}
                 /\ IF call.outcome = "written"
                    THEN /\ emitted' = emitted \cup {image}
                         /\ UNCHANGED <<ppc, gexc>>
                    ELSE /\ ppc' = "raised"
                         /\ gexc' = call.outcome
                         /\ UNCHANGED emitted
    /\ UNCHANGED <<gen_image, gen_metadata, gret>>
    /\ UNCHANGED <<metadata, inputs, canvas, writes, pc, exc, split, regions,
                   nsubmitted, task, tpos, gets, result, images, collected,
                   stdout, files, ret>>

\* the loop is through every key: generate_pyramid ends without a return
\* statement
GenerateReturn ==
    /\ ppc = "loop"
    /\ emitted = DOMAIN gen_image
    /\ ppc' = "returned"
    /\ gret' = None
    /\ UNCHANGED <<gen_image, gen_metadata, emitted, calls, tiffs, gexc>>
    /\ UNCHANGED <<metadata, inputs, canvas, writes, pc, exc, split, regions,
                   nsubmitted, task, tpos, gets, result, images, collected,
                   stdout, files, ret>>

\* pyramid.pyramid_file(filename, im, image.slide_metadata) by the caller,
\* for an entry of the dictionary pixel_array returned
CallerPyramidFile(image) ==
    /\ ppc = "constructed"
    /\ image \in DOMAIN ret
    /\ \E w \in WriteOutcomes(Some(ret[image])) :
         LET call == pyramid_file(image, Some(ret[image]),
                                  Some(slide_metadata), w)
                         @@ [via |-> "caller"]
         IN  /\ calls' = Append(calls, call)
             /\ tiffs' = tiffs \cup {call.file}
             /\ ppc' = IF call.outcome = "written"
                       THEN "called" ELSE "call raised"
             /\ gexc' = IF call.outcome = "written" THEN gexc
                        ELSE call.outcome
    /\ UNCHANGED <<gen_image, gen_metadata, emitted, gret>>
    /\ UNCHANGED <<metadata, inputs, canvas, writes, pc, exc, split, regions,
                   nsubmitted, task, tpos, gets, result, images, collected,
                   stdout, files, ret>>

\* pixel sizes of whole tiles
WholeSizes(m) == {k * TileEdge : k \in 1..m}

\* the slides' properties, over the ones pyramid_file reads
PyramidProperties ==
    {props \in Properties :
        /\ "aperio.Title" \in DOMAIN props
        /\ props["aperio.Title"] = PropertyValue("aperio.Title", 1)}

\* pixel_array has returned the stitched images of a slide without a tile
\* that fails
InitPyramid ==
    /\ nimages \in 1..RunMaxImages
    /\ level_dimensions \in WholeSizes(RunMaxW) \X WholeSizes(RunMaxH)
    /\ Supported(nimages, aspect_ratio(level_dimensions))
    /\ save = FALSE
    /\ format = DefaultFormat
    /\ badTiles = {}
    /\ pc = "returned"
    /\ exc = "none"
    /\ split = split_per_image(nimages, aspect_ratio(level_dimensions)).value
    /\ regions = image_split_cordinates(split, level_tiles)
    /\ nsubmitted = Len(regions)
    /\ task = [i \in 1..Len(regions) |-> "done"]
    /\ tpos = [i \in 1..Len(regions) |-> FullTiles(regions[i])]
    /\ canvas = [i \in 1..Len(regions) |->
                     raster(regions[i], FullTiles(regions[i]))]
    /\ writes = {Write(MainThread, ImagesDict)}
                    \cup {Write(Worker(i), FullImage(i)) : i \in 1..Len(regions)}
    /\ gets = [i \in 1..Len(regions) |->
                   [k \in 1..FullTiles(regions[i]) |->
                        <<level_to_split, tile_image_index(regions[i])[k]>>]]
    /\ result = [i \in 1..Len(regions) |-> Value(canvas[i])]
    /\ images = SequentialStitch(Len(regions))
    /\ collected = 1..Len(regions)
    /\ stdout = <<>>
    /\ files = {}
    /\ ret = images
    /\ properties \in PyramidProperties
    /\ slide_metadata = slide_metadata_dict(properties)
    /\ NoGenerator

NextPyramid ==
    \/ Construct
    \/ GeneratePyramid
    \/ \E image \in DOMAIN gen_image : LoopCall(image)
    \/ GenerateReturn
    \/ \E image \in DOMAIN ret : CallerPyramidFile(image)

SpecPyramid == InitPyramid /\ [][NextPyramid]_vars

(* ---------------------------------------------------------------------- *)
(* Properties of the pyramid emitter                                       *)
(* ---------------------------------------------------------------------- *)
\* the pyramid_file calls generate_pyramid has made
GeneratorCalls == {k \in 1..Len(calls) : calls[k].via = "generate_pyramid"}

\* the integer an entry of the metadata mapping stands for, or the fallback
EntryOr(image_metadata, key, fallback) ==
    IF image_metadata[key] = None THEN fallback
    ELSE DigitsValue(image_metadata[key][1])

\* C17: a pyramid_file call given a raster and a metadata mapping writes its
\* file whichever of the tile-size, resolution-unit and level-0 size entries
\* are None, with 256-pixel tiles, the centimeter unit and the fixed pixel
\* size as fallbacks, and with the entries' values where they are present
C17_EmitterFallbacks ==
    \A k \in 1..Len(calls) :
        (calls[k].image_metadata # None /\ calls[k].pixel_data # None) =>
            LET md == calls[k].image_metadata[1]
            IN  /\ calls[k].outcome = "written"
                /\ calls[k].write.tile =
                       <<EntryOr(md, "openslide.level[0].tile-height", 256),
                         EntryOr(md, "openslide.level[0].tile-width", 256)>>
                /\ calls[k].write.resolutionunit =
                       (IF md["tiff.ResolutionUnit"] = None
                        THEN <<"CENTIMETER">>
                        ELSE md["tiff.ResolutionUnit"][1])
                /\ calls[k].write.resolution = resolution
                /\ \A key \in {"openslide.level[0].height",
                               "openslide.level[0].width"} :
                       md[key] # None =>
                           EntryOr(md, key, 0) \in
                               {calls[k].write.shape[j] : j \in 1..2}

\* C18: every pyramid_file call of generate_pyramid receives the name of a
\* sub-image of the dictionary, that sub-image's raster and the shared
\* metadata, no sub-image is emitted twice, and a generate_pyramid that ends
\* has made one call per sub-image
C18_OneFilePerImage ==
    /\ \A k \in GeneratorCalls :
           \E image \in DOMAIN gen_image :
               /\ calls[k].filename = image
               /\ calls[k].pixel_data = Some(gen_image[image])
               /\ calls[k].image_metadata = gen_metadata
    /\ \A j, k \in GeneratorCalls :
           j # k => calls[j].filename # calls[k].filename
    /\ ppc = "returned" =>
           Cardinality(GeneratorCalls) = Cardinality(DOMAIN gen_image)

\* C19: a generate_pyramid call on a generator built from the dictionary of
\* pixel_array ends by returning the mapping from sub-image name to raster,
\* with one entry per stitched sub-image
C19_ReturnsImageMapping ==
    ppc \in {"returned", "raised"} =>
        /\ ppc = "returned"
        /\ gret = Some(ret)
        /\ DOMAIN ret = {image_filename(regions[i]) : i \in Tasks}

(* ---------------------------------------------------------------------- *)
(* Properties of the save side effect                                      *)
(* ---------------------------------------------------------------------- *)
\* the regions whose raster file exists
Saved == {i \in Tasks : save_path(regions[i], format) \in files}

\* C21: a raster file exists only with the save flag set, only at
\* '<slide directory>/<identifier>.<format>' of a region, and only once every
\* tile of that region has been fetched and pasted; a region whose tile fetch
\* failed has no file, and a region that ran to its end with the flag set has
\* its file
C21_SaveOrdering ==
    LET saved == Saved
    IN  /\ ~save => files = {}
        /\ files = {<<slide_directory, "/">> \o image_filename(regions[i])
                        \o <<".", format>> : i \in saved}
        /\ \A i \in saved :
               /\ tpos[i] = FullTiles(regions[i])
               /\ Len(gets[i]) = FullTiles(regions[i])
               /\ Cardinality(canvas[i].pasted) = FullTiles(regions[i])
               /\ result[i].cause # "get_tile"
        /\ \A i \in Tasks :
               /\ result[i].cause = "get_tile" => i \notin saved
               /\ (save /\ task[i] = "done") => i \in saved

C21_Witness ==
    /\ save
    /\ format = "png"
    /\ pc = "returned"
    /\ \E i, j \in Tasks :
           /\ result[i].cause = "get_tile"
           /\ tpos[i] > 0
           /\ i \notin Saved
           /\ task[j] = "done"
           /\ files = {save_path(regions[j], format)}

(* ---------------------------------------------------------------------- *)
(* Properties of the regions under the split factors _split_per_image      *)
(* returns                                                                 *)
(* ---------------------------------------------------------------------- *)
\* aspect ratios on both sides of the test of _split_per_image
AspectRatios == {<<1, 1>>, <<2, 1>>, <<1, 2>>, <<3, 1>>}

\* sf is a split factor _split_per_image returns for a count >= 1
Returned(sf) ==
    \E n \in 1..MaxImages, ratio \in AspectRatios :
        /\ split_per_image(n, ratio).kind = "ok"
        /\ split_per_image(n, ratio).value = sf

\* C22: a split factor returned by _split_per_image has 1 or 2 rows, and the
\* row range of every region is [row * base_rows, row * base_rows + base_rows)
\* for a non-last row and [row * base_rows, H) for the last row
C22_ReachableRowRanges ==
    /\ (SplitDecided /\ pc # "raised") => split[2] \in {1, 2}
    /\ RegionsComputed =>
           \A k \in 1..Len(regions) :
               LET c == regions[k]
               IN  /\ c.y1 = Row(c) * base_rows
                   /\ c.y3 = IF Row(c) < split[2] - 1
                             THEN Row(c) * base_rows + base_rows
                             ELSE level_tiles[2]

C22_Witness ==
    /\ pc = "submit"
    /\ nimages = 6
    /\ split = <<3, 2>>
    /\ level_tiles = <<10, 5>>
    /\ \E j, k \in 1..Len(regions) :
           /\ regions[j].image = <<1, 1>>
           /\ <<regions[j].y1, regions[j].y3>> = <<0, 2>>
           /\ regions[k].image = <<1, 2>>
           /\ <<regions[k].y1, regions[k].y3>> = <<2, 5>>

\* C23: for a split factor (C, R) that _split_per_image returns and a grid
\* whose width is a multiple of C, the boxes cover every grid cell exactly
\* once and nothing else, whatever H % R is
C23_PartitionEvenWidth ==
    (RegionsComputed /\ Returned(split)
                     /\ level_tiles[1] % split[1] = 0) =>
        /\ \A cell \in Grid(level_tiles) : Cardinality(Covering(cell)) = 1
        /\ \A k \in 1..Len(regions) : Box(regions[k]) \subseteq Grid(level_tiles)

C23_Witness ==
    /\ pc = "looped"
    /\ split = <<3, 2>>
    /\ level_tiles = <<9, 7>>
    /\ rem_rows = 1
    /\ Len(regions) = 6
    /\ \A cell \in Grid(level_tiles) : Cardinality(Covering(cell)) = 1

\* C24: under a split factor that _split_per_image returns every box lies
\* inside the grid with start <= end in both directions, every get_tile call
\* of a run asks for a tile of the grid, and no Image.new is given a negative
\* size
C24_InRangeRequests ==
    /\ (RegionsComputed /\ Returned(split)) =>
           \A k \in 1..Len(regions) :
               LET c == regions[k]
               IN  /\ 0 <= c.x1 /\ c.x1 <= c.x2 /\ c.x2 <= level_tiles[1]
                   /\ 0 <= c.y1 /\ c.y1 <= c.y3 /\ c.y3 <= level_tiles[2]
                   /\ image_width(c) >= 0 /\ image_height(c) >= 0
    /\ \A i \in DOMAIN gets :
           \A k \in 1..Len(gets[i]) : gets[i][k][2] \in Grid(level_tiles)
    /\ \A i \in DOMAIN result : result[i].cause # "ValueError"
    /\ \A i \in DOMAIN canvas : canvas[i].width >= 0 /\ canvas[i].height >= 0

C24_Witness ==
    /\ pc = "returned"
    /\ split = <<2, 2>>
    /\ level_tiles = <<3, 1>>
    /\ \E i \in Tasks :
           /\ regions[i].image = <<1, 1>>
           /\ canvas[i].height = 0
           /\ gets[i] = <<>>
    /\ \E i \in Tasks :
           /\ regions[i].image = <<2, 2>>
           /\ <<regions[i].x1, regions[i].x2>> = <<1, 3>>
           /\ Len(gets[i]) = 2

====
